---- MODULE Spec2Model ----
(***************************************************************************)
(* Model of src/src/week-1/task-1/index.js: the banking transaction        *)
(* processor processBankingTransaction with its helpers toNumber,          *)
(* isTransactionType, validateTransaction and applyTransaction.            *)
(*                                                                         *)
(* JavaScript values are tagged records.  Numbers are the integers (exact  *)
(* in a double far beyond the bounds used here) plus NaN and the two       *)
(* infinities; strings are sequences of one-character strings, so that     *)
(* Number(string) is a real parse.  The string inputs range over integer   *)
(* literals, blanks, "Infinity" and non-numeric words: decimal points,     *)
(* exponents and radix prefixes are outside the input alphabet.            *)
(***************************************************************************)
EXTENDS Integers, Sequences, FiniteSets, TLC

VARIABLES input, pc, i, account, applied, rejected, logMessage

vars == <<input, pc, i, account, applied, rejected, logMessage>>

-----------------------------------------------------------------------------
(* Bounds of the explored inputs.                                          *)

\* longest transaction list drawn from the whole element set
MaxTxns == 2
\* longest list made of numeric deposits and withdrawals only
MaxPlainTxns == 3
\* largest numeric amount of a generated transaction
MaxAmount == 2
\* largest numeric initial balance of a generated account
MaxInitial == 2

-----------------------------------------------------------------------------
(* JavaScript values.                                                      *)

Undefined == [t |-> "undefined", c |-> "", v |-> 0, s |-> <<>>]
Null == [t |-> "null", c |-> "", v |-> 0, s |-> <<>>]
Num(n) == [t |-> "number", c |-> "fin", v |-> n, s |-> <<>>]
NaN == [t |-> "number", c |-> "nan", v |-> 0, s |-> <<>>]
Infinity == [t |-> "number", c |-> "inf", v |-> 1, s |-> <<>>]
NegInfinity == [t |-> "number", c |-> "inf", v |-> -1, s |-> <<>>]
Str(chars) == [t |-> "string", c |-> "", v |-> 0, s |-> chars]
Bool(b) == [t |-> "boolean", c |-> "", v |-> IF b THEN 1 ELSE 0, s |-> <<>>]
\* the object literal {} and the array literal []
EmptyObject == [t |-> "object", c |-> "plain", v |-> 0, s |-> <<>>]
EmptyArray == [t |-> "object", c |-> "array", v |-> 0, s |-> <<>>]

\* ToBoolean, as used by the ! operator
Truthy(value) ==
    CASE value.t = "undefined" -> FALSE
      [] value.t = "null" -> FALSE
      [] value.t = "boolean" -> value.v = 1
      [] value.t = "number" -> (value.c = "inf") \/ (value.c = "fin" /\ value.v # 0)
      [] value.t = "string" -> value.s # <<>>
      [] OTHER -> TRUE

Digits == <<"0", "1", "2", "3", "4", "5", "6", "7", "8", "9">>

IsDigit(ch) == \E k \in 1..Len(Digits) : Digits[k] = ch

DigitVal(ch) == (CHOOSE k \in 1..Len(Digits) : Digits[k] = ch) - 1

RECURSIVE TrimLeft(_)
TrimLeft(chars) ==
    IF chars # <<>> /\ Head(chars) = " " THEN TrimLeft(Tail(chars)) ELSE chars

RECURSIVE TrimRight(_)
TrimRight(chars) ==
    IF chars # <<>> /\ chars[Len(chars)] = " "
    THEN TrimRight(SubSeq(chars, 1, Len(chars) - 1))
    ELSE chars

RECURSIVE DigitsValue(_)
DigitsValue(chars) ==
    IF chars = <<>> THEN 0
    ELSE 10 * DigitsValue(SubSeq(chars, 1, Len(chars) - 1)) + DigitVal(chars[Len(chars)])

InfinityWord == <<"I", "n", "f", "i", "n", "i", "t", "y">>

\* StringToNumber: blanks trimmed, the empty string is 0, an optional sign,
\* then decimal digits or the word Infinity; anything else is NaN
StringToNumber(chars) ==
    LET trimmed == TrimRight(TrimLeft(chars))
        signed == trimmed # <<>> /\ Head(trimmed) \in {"+", "-"}
        sign == IF trimmed # <<>> /\ Head(trimmed) = "-" THEN -1 ELSE 1
        body == IF signed THEN Tail(trimmed) ELSE trimmed
    IN  IF trimmed = <<>> THEN Num(0)
        ELSE IF body = InfinityWord THEN (IF sign = 1 THEN Infinity ELSE NegInfinity)
        ELSE IF body # <<>> /\ \A k \in 1..Len(body) : IsDigit(body[k])
             THEN Num(sign * DigitsValue(body))
        ELSE NaN

\* Number(value): ToNumber
Number(value) ==
    CASE value.t = "undefined" -> NaN
      [] value.t = "null" -> Num(0)
      [] value.t = "boolean" -> Num(value.v)
      [] value.t = "number" -> value
      [] value.t = "string" -> StringToNumber(value.s)
      [] value.t = "object" /\ value.c = "array" -> Num(0)
      [] OTHER -> NaN

\* const toNumber = (value) => { const n = Number(value);
\*                               return isFinite(n) && !isNaN(n) ? n : null; }
toNumber(value) ==
    LET n == Number(value)
    IN  IF n.c = "fin" THEN n ELSE Null

DepositWord == <<"D", "e", "p", "o", "s", "i", "t">>
WithdrawWord == <<"W", "i", "t", "h", "d", "r", "a", "w">>

\* variant: the membership test is left out
isTransactionTypeAnyString(type) == type.t = "string"

\* typeof type === "string" && ["Deposit", "Withdraw"].includes(type)
isTransactionType(type) ==
    type.t = "string" /\ type.s \in {DepositWord, WithdrawWord}

-----------------------------------------------------------------------------
(* Messages: the text of a template literal, {k} standing for its k-th     *)
(* interpolation, with the interpolated values before their conversion to  *)
(* text.                                                                   *)

Msg(text, args) == [text |-> text, args |-> args]

-----------------------------------------------------------------------------
(* validateTransaction                                                     *)

\* a transaction element: an object with the fields type and amount (an
\* absent field reads as undefined), or a value that is no object
Txn(type, amount) == [kind |-> "object", type |-> type, amount |-> amount]
NonObject(kind) == [kind |-> kind, type |-> Undefined, amount |-> Undefined]

\* !txn || typeof txn !== "object"
NotAnObject(txn) == txn.kind # "object"

\* !txn.type
MissingType(txn) == ~Truthy(txn.type)

\* txn.amount === undefined || txn.amount === null
MissingAmount(txn) == txn.amount = Undefined \/ txn.amount = Null

\* variant: amount < 0, which lets zero through
NotPositiveAllowsZero(amount) == amount.v < 0

\* amount <= 0
NotPositive(amount) == amount.v <= 0

Fail(error) == [ok |-> FALSE, error |-> error]

\* variant: the amount is examined before the type
validateTransactionAmountFirst(txn) ==
    IF NotAnObject(txn) THEN Fail(Msg("Invalid transaction object", <<>>))
    ELSE IF MissingAmount(txn) THEN Fail(Msg("Missing transaction amount", <<>>))
    ELSE IF toNumber(txn.amount) = Null THEN Fail(Msg("Invalid amount: {0}", <<txn.amount>>))
    ELSE IF NotPositive(toNumber(txn.amount))
         THEN Fail(Msg("Amount must be positive: {0}", <<toNumber(txn.amount)>>))
    ELSE IF MissingType(txn) THEN Fail(Msg("Missing transaction type", <<>>))
    ELSE IF ~isTransactionType(txn.type)
         THEN Fail(Msg("Unknown transaction type: {0}", <<txn.type>>))
    ELSE [ok |-> TRUE, amount |-> toNumber(txn.amount)]

validateTransaction(txn) ==
    IF NotAnObject(txn) THEN Fail(Msg("Invalid transaction object", <<>>))
    ELSE IF MissingType(txn) THEN Fail(Msg("Missing transaction type", <<>>))
    ELSE IF ~isTransactionType(txn.type)
         THEN Fail(Msg("Unknown transaction type: {0}", <<txn.type>>))
    ELSE IF MissingAmount(txn) THEN Fail(Msg("Missing transaction amount", <<>>))
    ELSE LET amount == toNumber(txn.amount)
         IN  IF amount = Null THEN Fail(Msg("Invalid amount: {0}", <<txn.amount>>))
             ELSE IF NotPositive(amount)
                  THEN Fail(Msg("Amount must be positive: {0}", <<amount>>))
             ELSE [ok |-> TRUE, amount |-> amount]

-----------------------------------------------------------------------------
(* applyTransaction                                                        *)

\* variant: the 0-based index is stored
WithIndexZeroBased(transaction, index) ==
    [type |-> transaction.type, amount |-> transaction.amount, index |-> index]

\* { ...transaction, index: index + 1 }
WithIndex(transaction, index) ==
    [type |-> transaction.type, amount |-> transaction.amount, index |-> index + 1]

\* variant: amount >= account.balance, which refuses to drain the account
InsufficientBalanceStrict(transaction, amount, balance) ==
    transaction.type = Str(WithdrawWord) /\ amount.v >= balance

\* variant: the balance test is attached to the wrong type
InsufficientBalanceOnDeposit(transaction, amount, balance) ==
    transaction.type = Str(DepositWord) /\ amount.v > balance

\* transaction.type === "Withdraw" && amount > account.balance
InsufficientBalance(transaction, amount, balance) ==
    transaction.type = Str(WithdrawWord) /\ amount.v > balance

\* variant: the amount is added whatever the type
NewBalanceAlwaysAdds(transaction, amount, balance) == balance + amount.v

\* account.balance += transaction.type === "Deposit" ? amount : -amount
NewBalance(transaction, amount, balance) ==
    balance + (IF transaction.type = Str(DepositWord) THEN amount.v ELSE -amount.v)

\* the returned result, and the balance the call leaves in account.balance
applyTransaction(acct, index, transaction) ==
    LET validation == validateTransaction(transaction)
    IN  IF ~validation.ok
        THEN [result |-> [applied |-> FALSE, reason |-> validation.error,
                          transaction |-> WithIndex(transaction, index)],
              balance |-> acct.balance]
        ELSE LET amount == validation.amount
             IN  IF InsufficientBalance(transaction, amount, acct.balance)
                 THEN [result |->
                           [applied |-> FALSE,
                            reason |-> Msg("Insufficient balance: required {0}, available {1}",
                                           <<amount, Num(acct.balance)>>),
                            transaction |-> WithIndex(transaction, index)],
                       balance |-> acct.balance]
                 ELSE [result |->
                           [applied |-> TRUE,
                            transaction |-> [WithIndex(transaction, index)
                                                 EXCEPT !.amount = amount]],
                       balance |-> NewBalance(transaction, amount, acct.balance)]

-----------------------------------------------------------------------------
(* processBankingTransaction: the checks of the try block                  *)

\* the input record; an input that is no object reads every field as undefined
InputObject(accountNumber, accountHolder, initialBalance, currency, transactions) ==
    [kind |-> "object", accountNumber |-> accountNumber,
     accountHolder |-> accountHolder, initialBalance |-> initialBalance,
     currency |-> currency, transactions |-> transactions]

\* the transactions field: an array of elements, or some value that is no array
Array(items) == [isArray |-> TRUE, items |-> items]
NotArray == [isArray |-> FALSE, items |-> <<>>]

NoError == Msg("", <<>>)

\* variant: the initial balance is coerced before the array test
thrownErrorBalanceFirst(in) ==
    IF in.kind # "object" THEN Msg("Input must be a valid object", <<>>)
    ELSE IF ~Truthy(in.accountNumber) THEN Msg("Missing account number", <<>>)
    ELSE IF ~Truthy(in.accountHolder) THEN Msg("Missing account holder", <<>>)
    ELSE IF in.initialBalance = Undefined \/ in.initialBalance = Null
         THEN Msg("Missing initial balance", <<>>)
    ELSE IF ~Truthy(in.currency) THEN Msg("Missing currency", <<>>)
    ELSE IF toNumber(in.initialBalance) = Null
         THEN Msg("Invalid initial balance: {0}", <<in.initialBalance>>)
    ELSE IF ~in.transactions.isArray THEN Msg("Transactions must be an array", <<>>)
    ELSE NoError

\* variant: the currency test is left out
thrownErrorNoCurrencyTest(in) ==
    IF in.kind # "object" THEN Msg("Input must be a valid object", <<>>)
    ELSE IF ~Truthy(in.accountNumber) THEN Msg("Missing account number", <<>>)
    ELSE IF ~Truthy(in.accountHolder) THEN Msg("Missing account holder", <<>>)
    ELSE IF in.initialBalance = Undefined \/ in.initialBalance = Null
         THEN Msg("Missing initial balance", <<>>)
    ELSE IF ~in.transactions.isArray THEN Msg("Transactions must be an array", <<>>)
    ELSE IF toNumber(in.initialBalance) = Null
         THEN Msg("Invalid initial balance: {0}", <<in.initialBalance>>)
    ELSE NoError

\* the message of the Error thrown by the try block before the account is
\* initialised, NoError when none is thrown
thrownError(in) ==
    IF in.kind # "object" THEN Msg("Input must be a valid object", <<>>)
    ELSE IF ~Truthy(in.accountNumber) THEN Msg("Missing account number", <<>>)
    ELSE IF ~Truthy(in.accountHolder) THEN Msg("Missing account holder", <<>>)
    ELSE IF in.initialBalance = Undefined \/ in.initialBalance = Null
         THEN Msg("Missing initial balance", <<>>)
    ELSE IF ~Truthy(in.currency) THEN Msg("Missing currency", <<>>)
    ELSE IF ~in.transactions.isArray THEN Msg("Transactions must be an array", <<>>)
    ELSE IF toNumber(in.initialBalance) = Null
         THEN Msg("Invalid initial balance: {0}", <<in.initialBalance>>)
    ELSE NoError

\* variant: the balance starts at zero
newAccountZeroBalance(in) ==
    [accountNumber |-> in.accountNumber, accountHolder |-> in.accountHolder,
     currency |-> in.currency, initialBalance |-> toNumber(in.initialBalance).v,
     balance |-> 0]

\* account = { accountNumber, accountHolder, currency,
\*             initialBalance: startingBalance, balance: startingBalance }
newAccount(in) ==
    LET startingBalance == toNumber(in.initialBalance)
    IN  [accountNumber |-> in.accountNumber, accountHolder |-> in.accountHolder,
         currency |-> in.currency, initialBalance |-> startingBalance.v,
         balance |-> startingBalance.v]

\* { error: "System Error", message: err.message }
SystemError(message) == [error |-> "System Error", message |-> message]

-----------------------------------------------------------------------------
(* The inputs explored.                                                    *)

UnknownWord == <<"U", "n", "k", "n", "o", "w", "n">>
InvalidWord == <<"i", "n", "v", "a", "l", "i", "d">>

Deposit == Str(DepositWord)
Withdraw == Str(WithdrawWord)

\* the decimal numeral of a natural number below 10
Numeral(n) == Str(<<Digits[n + 1]>>)

\* absent, unknown and known types, each with every kind of amount that some
\* check refuses
RefusedTxns ==
    { Txn(type, amount) :
        type \in {Undefined, Withdraw, Str(UnknownWord)},
        amount \in {Undefined, Num(0), Str(InvalidWord)} }

\* well-formed deposits and withdrawals, amounts as numbers and as numerals
WellFormedTxns ==
    { Txn(type, amount) :
        type \in {Deposit, Withdraw},
        amount \in {Num(n) : n \in 1..MaxAmount} \cup {Numeral(MaxAmount)} }

\* elements that are no object, falsy and wrongly cased types, and amounts
\* that exercise each branch of Number()
OddTxns ==
    { NonObject("null"), NonObject("number"),
      Txn(Str(<<>>), Num(1)), Txn(Num(0), Str(InvalidWord)),
      Txn(Str(<<"d", "e", "p", "o", "s", "i", "t">>), Num(1)),
      Txn(Deposit, Null), Txn(Withdraw, NaN), Txn(Deposit, Infinity),
      Txn(Deposit, Bool(TRUE)), Txn(Withdraw, Str(<<" ", "1", " ">>)),
      Txn(Deposit, EmptyArray), Txn(Withdraw, EmptyObject),
      Txn(Deposit, Str(<<>>)), Txn(Withdraw, Str(<<"-", "1">>)),
      Txn(Deposit, Str(InfinityWord)), Txn(Deposit, Num(0)), Txn(Deposit, Num(-1)) }

TxnElements == RefusedTxns \cup WellFormedTxns \cup OddTxns

RECURSIVE ListsUpTo(_)
ListsUpTo(n) ==
    IF n = 0 THEN {<<>>}
    ELSE LET shorter == ListsUpTo(n - 1)
         IN  shorter \cup { Append(l, e) : l \in {m \in shorter : Len(m) = n - 1},
                                            e \in TxnElements }

AccountNumber == Str(<<"A", "C", "C">>)
AccountHolder == Str(<<"J", "D">>)
Currency == Str(<<"U", "S", "D">>)

\* initial balances that toNumber accepts
GoodBalances == {Num(n) : n \in -1..MaxInitial} \cup {Numeral(MaxInitial)}

\* well-formed accounts, the balance a number or a numeral, with every
\* transaction list up to MaxTxns
ListInputs ==
    { InputObject(AccountNumber, AccountHolder, initialBalance, Currency, Array(items)) :
        initialBalance \in {Num(1), Numeral(MaxInitial)}, items \in ListsUpTo(MaxTxns) }

RECURSIVE PlainListsUpTo(_)
PlainListsUpTo(n) ==
    IF n = 0 THEN {<<>>}
    ELSE LET shorter == PlainListsUpTo(n - 1)
         IN  shorter \cup { Append(l, Txn(type, Num(amount))) :
                                l \in {m \in shorter : Len(m) = n - 1},
                                type \in {Deposit, Withdraw}, amount \in 1..MaxAmount }

\* well-formed accounts with longer lists of numeric deposits and withdrawals
PlainInputs ==
    { InputObject(AccountNumber, AccountHolder, initialBalance, Currency, Array(items)) :
        initialBalance \in GoodBalances, items \in PlainListsUpTo(MaxPlainTxns) }

\* every combination of present, absent and ill-formed top-level fields
StructuralInputs ==
    { InputObject(accountNumber, accountHolder, initialBalance, currency, transactions) :
        accountNumber \in {AccountNumber, Undefined, Str(<<>>)},
        accountHolder \in {AccountHolder, Undefined},
        initialBalance \in {Num(1), Undefined, Null, Str(InvalidWord), NaN, Infinity},
        currency \in {Currency, Undefined},
        transactions \in {NotArray, Array(<<>>), Array(<<Txn(Deposit, Num(1))>>)} }
    \cup
    { [kind |-> kind, accountNumber |-> Undefined, accountHolder |-> Undefined,
       initialBalance |-> Undefined, currency |-> Undefined, transactions |-> NotArray] :
        kind \in {"null", "undefined", "number"} }

testCase1 ==
    InputObject(Str(<<"A", "C", "C", "0", "0", "1">>), Str(<<"J", "o", "h", "n">>),
                Num(1000), Str(<<"U", "S", "D">>),
                Array(<<Txn(Deposit, Num(500)), Txn(Withdraw, Num(200)),
                        Txn(Deposit, Num(300))>>))

testCase2 ==
    InputObject(Str(<<"A", "C", "C", "0", "0", "2">>), Str(<<"J", "a", "n", "e">>),
                Str(<<"2", "0", "0", "0">>), Str(<<"E", "U", "R">>),
                Array(<<Txn(Deposit, Num(500)), Txn(Withdraw, Num(3000)),
                        Txn(Deposit, Num(-100)), Txn(Str(UnknownWord), Num(50)),
                        Txn(Withdraw, Undefined), Txn(Undefined, Num(200)),
                        Txn(Deposit, Str(InvalidWord))>>))

Inputs == ListInputs \cup PlainInputs \cup StructuralInputs \cup {testCase1, testCase2}

-----------------------------------------------------------------------------
(* processBankingTransaction as a state machine: pc is the position in the *)
(* function body.                                                          *)

Init ==
    /\ input \in Inputs
    /\ pc = "try"
    /\ i = 0
    /\ account = Null
    /\ applied = <<>>
    /\ rejected = <<>>
    /\ logMessage = Msg("", <<>>)

\* a check of the try block throws: the catch clause records the error
Catch ==
    /\ pc = "try"
    /\ thrownError(input) # NoError
    /\ rejected' = Append(rejected, SystemError(thrownError(input)))
    /\ logMessage' = thrownError(input)
    /\ pc' = "report"
    /\ UNCHANGED <<input, i, account, applied>>

\* every check passes: the account is initialised
InitializeAccount ==
    /\ pc = "try"
    /\ thrownError(input) = NoError
    /\ account' = newAccount(input)
    /\ pc' = "forEach"
    /\ UNCHANGED <<input, i, applied, rejected, logMessage>>

\* one call of the forEach callback, on the element at 0-based index i
ForEachCallback ==
    /\ pc = "forEach"
    /\ i < Len(input.transactions.items)
    /\ LET call == applyTransaction(account, i, input.transactions.items[i + 1])
       IN  /\ account' = [account EXCEPT !.balance = call.balance]
           /\ IF call.result.applied
              THEN /\ applied' = Append(applied, call.result.transaction)
                   /\ UNCHANGED rejected
              ELSE /\ rejected' = Append(rejected, call.result)
                   /\ UNCHANGED applied
    /\ i' = i + 1
    /\ UNCHANGED <<input, pc, logMessage>>

\* forEach has visited every element
ForEachEnd ==
    /\ pc = "forEach"
    /\ i = Len(input.transactions.items)
    /\ pc' = "report"
    /\ UNCHANGED <<input, i, account, applied, rejected, logMessage>>

\* the reporting section: with an account the audit line is the totals
Report ==
    /\ pc = "report"
    /\ logMessage' =
           IF account # Null
           THEN Msg("Completed: {0} applied, {1} rejected.",
                    <<Num(Len(applied)), Num(Len(rejected))>>)
           ELSE logMessage
    /\ pc' = "done"
    /\ UNCHANGED <<input, i, account, applied, rejected>>

Next == Catch \/ InitializeAccount \/ ForEachCallback \/ ForEachEnd \/ Report

Spec == Init /\ [][Next]_vars

-----------------------------------------------------------------------------
(* Vocabulary of the properties.                                           *)

Items == input.transactions.items

\* the coerced initial balance of the input
StartingBalance == toNumber(input.initialBalance).v

\* what an applied entry adds to the balance
Signed(entry) == IF entry.type = Deposit THEN entry.amount.v ELSE -entry.amount.v

RECURSIVE SumOf(_, _)
SumOf(entries, type) ==
    IF entries = <<>> THEN 0
    ELSE (IF Head(entries).type = type THEN Head(entries).amount.v ELSE 0)
         + SumOf(Tail(entries), type)

RECURSIVE SignedSumBefore(_, _)
SignedSumBefore(entries, position) ==
    IF entries = <<>> THEN 0
    ELSE (IF Head(entries).index < position THEN Signed(Head(entries)) ELSE 0)
         + SignedSumBefore(Tail(entries), position)

\* the balance just before the element at 1-based position is evaluated
RunningBalance(position) == StartingBalance + SignedSumBefore(applied, position)

AppliedAt(position) == {k \in 1..Len(applied) : applied[k].index = position}

RejectedAt(position) ==
    {k \in 1..Len(rejected) :
        "transaction" \in DOMAIN rejected[k] /\ rejected[k].transaction.index = position}

Min(set) == CHOOSE m \in set : \A n \in set : m <= n

InsufficientText == "Insufficient balance: required {0}, available {1}"

-----------------------------------------------------------------------------
\* C1: at every point of the loop and after it, the account balance is the
\* coerced initial balance plus the amounts of the applied Deposits minus the
\* amounts of the applied Withdraws.
BalanceEquation ==
    account # Null =>
        account.balance = StartingBalance + SumOf(applied, Deposit) - SumOf(applied, Withdraw)

\* a finished run that applied a Deposit and a Withdraw and rejected an element
BalanceEquationWitness ==
    /\ pc = "done"
    /\ \E k \in 1..Len(applied) : applied[k].type = Deposit
    /\ \E k \in 1..Len(applied) : applied[k].type = Withdraw
    /\ rejected # <<>>

-----------------------------------------------------------------------------
\* C2: a Withdraw that passes field validation is applied exactly when its
\* coerced amount is at most the running balance at its position; otherwise it
\* is rejected for insufficient balance, and stays rejected whatever is
\* deposited later; a Withdraw equal to the running balance leaves zero.
WithdrawAgainstRunningBalance ==
    account # Null =>
        \A position \in 1..i :
            LET txn == Items[position]
                amount == toNumber(txn.amount).v
                running == RunningBalance(position)
            IN  (txn.type = Withdraw /\ validateTransaction(txn).ok) =>
                    /\ (AppliedAt(position) # {}) <=> (amount <= running)
                    /\ (amount > running) =>
                           \E k \in RejectedAt(position) :
                               rejected[k].reason.text = InsufficientText
                    /\ (amount = running) => RunningBalance(position + 1) = 0

\* a Withdraw was rejected for insufficient balance and a later Deposit has
\* raised the final balance to at least the amount that was asked for
WithdrawAgainstRunningBalanceWitness ==
    /\ pc = "done"
    /\ \E k \in 1..Len(rejected), j \in 1..Len(applied) :
          /\ "reason" \in DOMAIN rejected[k]
          /\ rejected[k].reason.text = InsufficientText
          /\ applied[j].type = Deposit
          /\ applied[j].index > rejected[k].transaction.index
          /\ account.balance >= rejected[k].reason.args[1].v

-----------------------------------------------------------------------------
(* The structural conditions, each stated on its own.                      *)

NoFields ==
    \/ input.kind # "object"
    \/ ~Truthy(input.accountNumber)
    \/ ~Truthy(input.accountHolder)
    \/ input.initialBalance \in {Undefined, Null}
    \/ ~Truthy(input.currency)

BalanceNotCoercible ==
    input.initialBalance \notin {Undefined, Null} /\ toNumber(input.initialBalance) = Null

ListNotSequence == ~input.transactions.isArray

FieldsText ==
    IF input.kind # "object" THEN "Input must be a valid object"
    ELSE IF ~Truthy(input.accountNumber) THEN "Missing account number"
    ELSE IF ~Truthy(input.accountHolder) THEN "Missing account holder"
    ELSE IF input.initialBalance \in {Undefined, Null} THEN "Missing initial balance"
    ELSE "Missing currency"

\* the text of the structural error the run reported
ReportedText == rejected[1].message.text

StructuralFailure == NoFields \/ BalanceNotCoercible \/ ListNotSequence

\* C3 as stated: the reported structural error is the first failing one in the
\* order fields, initial balance coercible, transaction list a sequence.
StructuralOrderAsStated ==
    (pc \in {"report", "done"} /\ StructuralFailure) =>
        ReportedText = IF NoFields THEN FieldsText
                       ELSE IF BalanceNotCoercible THEN "Invalid initial balance: {0}"
                       ELSE "Transactions must be an array"

\* C3 amended: the reported structural error is the first failing one in the
\* order fields, transaction list a sequence, initial balance coercible.
StructuralOrder ==
    (pc \in {"report", "done"} /\ StructuralFailure) =>
        ReportedText = IF NoFields THEN FieldsText
                       ELSE IF ListNotSequence THEN "Transactions must be an array"
                       ELSE "Invalid initial balance: {0}"

\* every field present, the balance not coercible and the list no sequence:
\* the run has reported that the transactions must be an array
StructuralOrderWitness ==
    /\ pc = "done"
    /\ ~NoFields /\ BalanceNotCoercible /\ ListNotSequence
    /\ ReportedText = "Transactions must be an array"

-----------------------------------------------------------------------------
\* C4: on a structural failure no transaction is evaluated, the account stays
\* null, nothing is applied, and once the failure is caught the rejected
\* sequence is one system-level entry without a transaction, whose message is
\* also the summary message.
StructuralFailureIsFatal ==
    StructuralFailure =>
        /\ pc # "forEach"
        /\ i = 0
        /\ account = Null
        /\ applied = <<>>
        /\ pc \in {"report", "done"} =>
              /\ Len(rejected) = 1
              /\ rejected[1].error = "System Error"
              /\ DOMAIN rejected[1] = {"error", "message"}
              /\ rejected[1].message.text # ""
              /\ logMessage = rejected[1].message

\* a finished run whose only fault is a missing currency, on a non-empty list
StructuralFailureIsFatalWitness ==
    /\ pc = "done"
    /\ input.kind = "object"
    /\ ~Truthy(input.currency)
    /\ Truthy(input.accountNumber) /\ Truthy(input.accountHolder)
    /\ toNumber(input.initialBalance) # Null
    /\ input.transactions.isArray /\ Items # <<>>
    /\ logMessage.text = "Missing currency"

-----------------------------------------------------------------------------
(* The per-element checks, each stated on its own, in the fixed order.     *)

ElementChecks(txn, balance) ==
    << <<txn.kind # "object", "Invalid transaction object">>,
       <<~Truthy(txn.type), "Missing transaction type">>,
       <<txn.type \notin {Deposit, Withdraw}, "Unknown transaction type: {0}">>,
       <<txn.amount \in {Undefined, Null}, "Missing transaction amount">>,
       <<toNumber(txn.amount) = Null, "Invalid amount: {0}">>,
       <<toNumber(txn.amount) # Null /\ toNumber(txn.amount).v <= 0,
         "Amount must be positive: {0}">>,
       <<txn.type = Withdraw /\ toNumber(txn.amount) # Null
             /\ toNumber(txn.amount).v > balance,
         InsufficientText>> >>

FailingChecks(txn, balance) ==
    {k \in 1..7 : ElementChecks(txn, balance)[k][1]}

\* C5: every evaluated element is rejected with the reason of the first check
\* it fails in the fixed order (no type meaning an absent or falsy type field),
\* and is applied when it fails none.
FirstFailingCheckWins ==
    account # Null =>
        \A position \in 1..i :
            LET txn == Items[position]
                failing == FailingChecks(txn, RunningBalance(position))
            IN  IF failing = {}
                THEN AppliedAt(position) # {} /\ RejectedAt(position) = {}
                ELSE /\ AppliedAt(position) = {}
                     /\ \E k \in RejectedAt(position) :
                           rejected[k].reason.text =
                               ElementChecks(txn, RunningBalance(position))[Min(failing)][2]

\* an element with no type and an amount that is no number was rejected for
\* its missing type, and an element failing no check was applied
FirstFailingCheckWinsWitness ==
    /\ pc = "done"
    /\ applied # <<>>
    /\ \E k \in 1..Len(rejected) :
          /\ "reason" \in DOMAIN rejected[k]
          /\ rejected[k].transaction.type = Undefined
          /\ rejected[k].transaction.amount = Str(InvalidWord)
          /\ rejected[k].reason.text = "Missing transaction type"

-----------------------------------------------------------------------------
\* C6: with a valid account every evaluated position 1..i has exactly one
\* outcome, in exactly one of the two sequences and carrying its own position;
\* positions increase strictly within each sequence; the loop only ends after
\* all N elements, so a finished run holds exactly N outcomes.
OneOutcomePerElement ==
    account # Null =>
        /\ Len(applied) + Len(rejected) = i
        /\ \A position \in 1..i :
              Cardinality(AppliedAt(position)) + Cardinality(RejectedAt(position)) = 1
        /\ \A k \in 1..Len(applied) - 1 : applied[k].index < applied[k + 1].index
        /\ \A k \in 1..Len(rejected) - 1 :
              rejected[k].transaction.index < rejected[k + 1].transaction.index
        /\ pc \in {"report", "done"} => i = Len(Items)

\* a finished run in which a rejected element is followed by an applied one
OneOutcomePerElementWitness ==
    /\ pc = "done"
    /\ \E k \in 1..Len(rejected), j \in 1..Len(applied) :
          /\ "transaction" \in DOMAIN rejected[k]
          /\ rejected[k].transaction.index < applied[j].index

-----------------------------------------------------------------------------
\* C7: every applied entry is a Deposit or a Withdraw with an amount strictly
\* greater than zero, and every evaluated element whose coerced amount is zero
\* or less is among the rejected and not among the applied.
OnlyPositiveAmountsApplied ==
    account # Null =>
        /\ \A k \in 1..Len(applied) :
              /\ applied[k].type \in {Deposit, Withdraw}
              /\ applied[k].amount.t = "number" /\ applied[k].amount.c = "fin"
              /\ applied[k].amount.v > 0
        /\ \A position \in 1..i :
              LET coerced == toNumber(Items[position].amount)
              IN  (coerced # Null /\ coerced.v <= 0) =>
                      AppliedAt(position) = {} /\ RejectedAt(position) # {}

\* a Deposit of zero was evaluated against a positive balance and rejected
OnlyPositiveAmountsAppliedWitness ==
    /\ pc = "done"
    /\ account # Null /\ account.balance > 0
    /\ \E k \in 1..Len(rejected) :
          /\ "transaction" \in DOMAIN rejected[k]
          /\ rejected[k].transaction.type = Deposit
          /\ rejected[k].transaction.amount = Num(0)

-----------------------------------------------------------------------------
\* C8: the account is created with balance and initialBalance equal to the
\* coerced initial balance; afterwards initialBalance never changes, a step
\* that applies nothing leaves the balance alone, and a step that applies a
\* transaction appends one entry and moves the balance by exactly its amount,
\* up for a Deposit and down for a Withdraw.
BalanceFrame ==
    [][ /\ (account = Null /\ account' # Null) =>
              /\ account'.balance = StartingBalance
              /\ account'.initialBalance = StartingBalance
        /\ account # Null =>
              /\ account' # Null
              /\ account'.initialBalance = account.initialBalance
              /\ (applied' = applied) => account'.balance = account.balance
              /\ (applied' # applied) =>
                    /\ Len(applied') = Len(applied) + 1
                    /\ SubSeq(applied', 1, Len(applied)) = applied
                    /\ LET entry == applied'[Len(applied')]
                       IN  /\ entry.type = Deposit =>
                                  account'.balance = account.balance + entry.amount.v
                           /\ entry.type = Withdraw =>
                                  account'.balance = account.balance - entry.amount.v
      ]_vars

\* a finished run with an applied Withdraw and a Withdraw rejected for
\* insufficient balance
BalanceFrameWitness ==
    /\ pc = "done"
    /\ \E k \in 1..Len(applied) : applied[k].type = Withdraw
    /\ \E k \in 1..Len(rejected) :
          "reason" \in DOMAIN rejected[k] /\ rejected[k].reason.text = InsufficientText

-----------------------------------------------------------------------------
ReasonTexts == [k \in 1..Len(rejected) |-> rejected[k].reason.text]

RejectedPositions == [k \in 1..Len(rejected) |-> rejected[k].transaction.index]

\* C9: the run on testCase2 (initial balance "2000") applies only the Deposit
\* of 500 at position 1, rejects positions 2 to 7 for insufficient balance,
\* non-positive amount, unknown type, missing amount, missing type and invalid
\* amount, and ends with balance 2500.
ScenarioB ==
    (input = testCase2 /\ pc = "done") =>
        /\ applied = <<[type |-> Deposit, amount |-> Num(500), index |-> 1]>>
        /\ RejectedPositions = <<2, 3, 4, 5, 6, 7>>
        /\ ReasonTexts = <<InsufficientText, "Amount must be positive: {0}",
                           "Unknown transaction type: {0}", "Missing transaction amount",
                           "Missing transaction type", "Invalid amount: {0}">>
        /\ account.initialBalance = 2000
        /\ account.balance = 2500
        /\ logMessage.args = <<Num(1), Num(6)>>

\* the run on testCase2 has finished
ScenarioBWitness ==
    input = testCase2 /\ pc = "done" /\ Len(rejected) = 6

-----------------------------------------------------------------------------
\* C10: the balance is never below the smaller of the initial balance and
\* zero, and a Withdraw is only ever applied when the running balance at its
\* position is at least its amount.
BalanceFloor ==
    account # Null =>
        /\ account.balance >= Min({StartingBalance, 0})
        /\ \A k \in 1..Len(applied) :
              applied[k].type = Withdraw =>
                  RunningBalance(applied[k].index) >= applied[k].amount.v

\* an account that started below zero had a Withdraw rejected, then received
\* a Deposit, and then had a Withdraw applied
BalanceFloorWitness ==
    /\ account # Null
    /\ StartingBalance < 0
    /\ \E r \in 1..Len(rejected), d \in 1..Len(applied), w \in 1..Len(applied) :
          /\ rejected[r].reason.text = InsufficientText
          /\ applied[d].type = Deposit /\ applied[w].type = Withdraw
          /\ rejected[r].transaction.index < applied[d].index
          /\ applied[d].index < applied[w].index

====
